---- MODULE Spec2Model ----
(***************************************************************************)
(* Model of CsmBeta.py: the CiscoSwitchGUI handlers, the                   *)
(* InterfaceConfigDialog and the ConfigManager backup / restore.           *)
(*                                                                         *)
(* Text is a sequence of atoms.  An atom is a whitespace character (" ",   *)
(* "\n"), the comment character "!", a digit, or a word that holds no      *)
(* whitespace; the string operations of the source (split, strip,          *)
(* readlines, startswith, isdigit) are computed on these sequences.        *)
(***************************************************************************)
EXTENDS Integers, Sequences, FiniteSets, TLC

VARIABLES
    connection,       \* self.connection: "unset" (attribute never assigned), "none", "open"
    interface_list,   \* self.interface_list: sequence of [text, icon]
    vlan_list,        \* self.vlan_list: sequence of [text, data]
    currentItem,      \* self.interface_list.currentItem(): 0 is None, else an index
    dialog,           \* the modal InterfaceConfigDialog: <<>> closed, <<interface>> open
    cliMode,          \* mode of the remote CLI behind the connection: "exec", "config"
    transportFailed,  \* history: a send on the current connection raised
    defaulted,        \* history: default_interface has completed on the current connection
    files,            \* backups/: function from file name to written text
    firstWrite,       \* history: address and clock tick of the first write of each file
    clock,            \* datetime.datetime.now(), in ticks
    running_config,   \* the device's answer to "show running-config"
    lastOp            \* the last handler run, its outcome and its transport calls

vars == <<connection, interface_list, vlan_list, currentItem, dialog, cliMode,
          transportFailed, defaulted, files, firstWrite, clock, running_config, lastOp>>

guiVars == <<connection, interface_list, vlan_list, currentItem, dialog>>
archiveVars == <<files, firstWrite, clock, running_config>>

----------------------------------------------------------------------------
(* Bounds *)

MaxLines == 2
MaxLen == 4
MaxTick == 2
TicksPerSecond == 2

----------------------------------------------------------------------------
(* String operations *)

Whitespace == {" ", "\n"}

Digits == {"0", "1", "2"}

RECURSIVE split(_, _)
\* str.split(sep): the segments between the occurrences of sep, at least one
split(s, sep) ==
    IF \A i \in 1..Len(s) : s[i] # sep
    THEN <<s>>
    ELSE LET i == CHOOSE k \in 1..Len(s) :
                      s[k] = sep /\ \A j \in 1..(k - 1) : s[j] # sep
         IN  <<SubSeq(s, 1, i - 1)>> \o split(SubSeq(s, i + 1, Len(s)), sep)

RECURSIVE lstrip(_)
lstrip(s) ==
    IF s # <<>> /\ Head(s) \in Whitespace THEN lstrip(Tail(s)) ELSE s

RECURSIVE rstrip(_)
rstrip(s) ==
    IF s # <<>> /\ s[Len(s)] \in Whitespace
    THEN rstrip(SubSeq(s, 1, Len(s) - 1))
    ELSE s

\* str.strip(): leading and trailing whitespace removed
strip(s) == rstrip(lstrip(s))

RECURSIVE columnsOf(_)
\* str.split() without separator: the maximal runs of non-whitespace
columnsOf(s) ==
    LET t == lstrip(s)
    IN  IF t = <<>>
        THEN <<>>
        ELSE LET n == IF \E k \in 1..Len(t) : t[k] \in Whitespace
                      THEN CHOOSE k \in 1..Len(t) :
                               t[k] \in Whitespace
                               /\ \A j \in 1..(k - 1) : t[j] \notin Whitespace
                      ELSE Len(t) + 1
             IN  <<SubSeq(t, 1, n - 1)>> \o columnsOf(SubSeq(t, n, Len(t)))

\* str.isdigit(): non-empty and digits only
isdigit(tok) == tok # <<>> /\ \A i \in 1..Len(tok) : tok[i] \in Digits

\* str.startswith("!")
startswith(line, c) == line # <<>> /\ Head(line) = c

RECURSIVE readlines(_)
\* file.readlines(): the lines of the text, each with its terminating "\n"
readlines(s) ==
    IF s = <<>>
    THEN <<>>
    ELSE IF \A i \in 1..Len(s) : s[i] # "\n"
         THEN <<s>>
         ELSE LET i == CHOOSE k \in 1..Len(s) :
                           s[k] = "\n" /\ \A j \in 1..(k - 1) : s[j] # "\n"
              IN  <<SubSeq(s, 1, i)>> \o readlines(SubSeq(s, i + 1, Len(s)))

----------------------------------------------------------------------------
(* Transport calls and the remote CLI *)

SendCommand(cmd) == [call |-> "send_command", cmd |-> cmd, batch |-> <<>>]

SendConfigSet(lines) == [call |-> "send_config_set", cmd |-> <<>>, batch |-> lines]

CmdConfigure == <<"configure", " ", "terminal">>
CmdEnd == <<"end">>
CmdShowVersion == <<"show", " ", "version">>
CmdBrief == <<"show", " ", "ip", " ", "interface", " ", "brief">>
CmdVlanBrief == <<"show", " ", "vlan", " ", "brief">>
CmdRunning == <<"show", " ", "running-config">>

CmdDefault(name) == <<"default", " ", "interface", " ">> \o name
CmdShowInterface(name) ==
    <<"show", " ", "running-config", " ", "interface", " ">> \o name
CmdShowVlan(id) == <<"show", " ", "vlan", " ", "id", " ">> \o id
ScopeInterface(name) == <<"interface", " ">> \o name

\* The mode of the remote CLI after it has processed one command line
DeviceMode(mode, cmd) ==
    IF cmd = CmdConfigure THEN "config"
    ELSE IF cmd = CmdEnd THEN "exec"
    ELSE mode

\* Outcomes of one transport call: it returns, or it raises before or after
\* the device has processed the line
SendResults == {[ok |-> TRUE, applied |-> TRUE],
                [ok |-> FALSE, applied |-> TRUE],
                [ok |-> FALSE, applied |-> FALSE]}

ModeAfter(mode, cmd, res) == IF res.applied THEN DeviceMode(mode, cmd) ELSE mode

\* send_config_set enters configuration mode, sends the lines and leaves
\* configuration mode; when it raises, the CLI is left where the failure hit
ModeAfterBatch(mode, res) ==
    IF res.ok THEN "exec" ELSE IF res.applied THEN "config" ELSE mode

Op(op, arg, outcome, sent) ==
    [op |-> op, arg |-> arg, outcome |-> outcome, sent |-> sent,
     preConn |-> connection, preFailed |-> transportFailed, preMode |-> cliMode,
     preDefaulted |-> defaulted, raised |-> 0,
     loadIf |-> "skipped", loadVlan |-> "skipped"]

----------------------------------------------------------------------------
(* CiscoSwitchGUI: listing *)

\* set_interface_icon: the icon set on the item, "none" when no branch matches
set_interface_icon(status) ==
    IF status = <<"up">> THEN "green_icon.png"
    ELSE IF status = <<"down">> THEN "red_icon.png"
    ELSE IF status = <<"administratively", " ", "down">> THEN "black_icon.png"
    ELSE "none"

RECURSIVE InterfaceItems(_)
\* The loop of load_interfaces over the lines after the header: the items
\* added, and whether columns[4] raised IndexError and ended the loop
InterfaceItems(lines) ==
    IF lines = <<>>
    THEN [items |-> <<>>, error |-> FALSE]
    ELSE LET columns == columnsOf(Head(lines))
         IN  IF columns = <<>>
             THEN InterfaceItems(Tail(lines))
             ELSE IF Len(columns) < 5
                  THEN [items |-> <<>>, error |-> TRUE]
                  ELSE LET rest == InterfaceItems(Tail(lines))
                       IN  [items |-> <<[text |-> columns[1],
                                         icon |-> set_interface_icon(columns[5])]>>
                                      \o rest.items,
                            error |-> rest.error]

RECURSIVE VlanItems(_)
\* The loop of load_vlans: the items added, and whether columns[1] raised
VlanItems(lines) ==
    IF lines = <<>>
    THEN [items |-> <<>>, error |-> FALSE]
    ELSE LET columns == columnsOf(Head(lines))
         IN  IF columns # <<>> /\ isdigit(columns[1])
             THEN IF Len(columns) < 2
                  THEN [items |-> <<>>, error |-> TRUE]
                  ELSE LET rest == VlanItems(Tail(lines))
                       IN  [items |-> <<[text |-> <<columns[1], columns[2]>>,
                                         data |-> columns[1]]>> \o rest.items,
                            error |-> rest.error]
             ELSE VlanItems(Tail(lines))

\* load_interfaces with the connection set: the new list and the outcome
load_interfaces(res, output, old) ==
    IF ~res.ok
    THEN [list |-> old, outcome |-> "transport"]
    ELSE LET r == InterfaceItems(Tail(split(output, "\n")))
         IN  [list |-> r.items,
              outcome |-> IF r.error THEN "indexError" ELSE "ok"]

\* load_vlans with the connection set
load_vlans(res, output, old) ==
    IF ~res.ok
    THEN [list |-> old, outcome |-> "transport"]
    ELSE LET r == VlanItems(Tail(split(output, "\n")))
         IN  [list |-> r.items,
              outcome |-> IF r.error THEN "indexError" ELSE "ok"]

----------------------------------------------------------------------------
(* State after construction *)

NoOp ==
    [op |-> "init", arg |-> <<>>, outcome |-> "ok", sent |-> <<>>,
     preConn |-> "unset", preFailed |-> FALSE, preMode |-> "exec",
     preDefaulted |-> FALSE, raised |-> 0,
     loadIf |-> "skipped", loadVlan |-> "skipped"]

\* CiscoSwitchGUI.__init__ and ConfigManager.__init__: self.connection is not
\* assigned, the lists are empty, backups/ holds nothing
Constructed ==
    /\ connection = "unset"
    /\ interface_list = <<>>
    /\ vlan_list = <<>>
    /\ currentItem = 0
    /\ dialog = <<>>
    /\ cliMode = "exec"
    /\ transportFailed = FALSE
    /\ defaulted = FALSE
    /\ files = <<>>
    /\ firstWrite = <<>>
    /\ clock = 0
    /\ lastOp = NoOp

Init == Constructed /\ running_config = <<"a", "\n">>

----------------------------------------------------------------------------
(* CiscoSwitchGUI: handlers *)

\* connect_to_switch: ConnectHandler, then load_interfaces and load_vlans
connect_to_switch(connOk, ifRes, ifOut, vlRes, vlOut) ==
    /\ dialog = <<>>
    /\ IF connOk
       THEN LET li == load_interfaces(ifRes, ifOut, interface_list)
                lv == load_vlans(vlRes, vlOut, vlan_list)
            IN  /\ connection' = "open"
                /\ interface_list' = li.list
                /\ currentItem' = IF ifRes.ok THEN 0 ELSE currentItem
                /\ vlan_list' = lv.list
                /\ cliMode' = "exec"
                /\ transportFailed' = (~ifRes.ok \/ ~vlRes.ok)
                /\ defaulted' = FALSE
                /\ lastOp' = [Op("connect", <<ifOut, vlOut>>, "ok",
                                 <<SendCommand(CmdBrief), SendCommand(CmdVlanBrief)>>)
                                 EXCEPT !.loadIf = li.outcome,
                                        !.loadVlan = lv.outcome]
       ELSE /\ connection' = "none"
            /\ cliMode' = "exec"
            /\ transportFailed' = FALSE
            /\ defaulted' = FALSE
            /\ lastOp' = Op("connect", <<>>, "connectError", <<>>)
            /\ UNCHANGED <<interface_list, vlan_list, currentItem>>
    /\ UNCHANGED <<dialog, archiveVars>>

\* execute_command: the ad hoc command of command_input
execute_command(command, res) ==
    /\ dialog = <<>>
    /\ IF connection = "unset"
       THEN /\ lastOp' = Op("execute", <<command>>, "attributeError", <<>>)
            /\ UNCHANGED <<cliMode, transportFailed, defaulted>>
       ELSE IF connection = "none"
            THEN /\ lastOp' = Op("execute", <<command>>, "sessionNotReady", <<>>)
                 /\ UNCHANGED <<cliMode, transportFailed, defaulted>>
            ELSE /\ cliMode' = ModeAfter(cliMode, command, res)
                 /\ transportFailed' = (transportFailed \/ ~res.ok)
                 /\ UNCHANGED defaulted
                 /\ lastOp' = Op("execute", <<command>>,
                                 IF res.ok THEN "ok" ELSE "transport",
                                 <<SendCommand(command)>>)
    /\ UNCHANGED <<guiVars, archiveVars>>

\* show_interface_details: a click on item i of interface_list
show_interface_details(i, res) ==
    /\ dialog = <<>>
    /\ i \in 1..Len(interface_list)
    /\ currentItem' = i
    /\ IF connection = "open"
       THEN /\ transportFailed' = (transportFailed \/ ~res.ok)
            /\ UNCHANGED defaulted
            /\ lastOp' = Op("describe", <<interface_list[i].text>>,
                            IF res.ok THEN "ok" ELSE "transport",
                            <<SendCommand(CmdShowInterface(interface_list[i].text))>>)
       ELSE /\ lastOp' = Op("describe", <<interface_list[i].text>>, "noop", <<>>)
            /\ UNCHANGED <<transportFailed, defaulted>>
    /\ UNCHANGED <<connection, interface_list, vlan_list, dialog, cliMode, archiveVars>>

\* show_vlan_ports: a click on item i of vlan_list
show_vlan_ports(i, res) ==
    /\ dialog = <<>>
    /\ i \in 1..Len(vlan_list)
    /\ IF connection = "open"
       THEN /\ transportFailed' = (transportFailed \/ ~res.ok)
            /\ UNCHANGED defaulted
            /\ lastOp' = Op("vlanPorts", <<vlan_list[i].data>>,
                            IF res.ok THEN "ok" ELSE "transport",
                            <<SendCommand(CmdShowVlan(vlan_list[i].data))>>)
       ELSE /\ lastOp' = Op("vlanPorts", <<vlan_list[i].data>>, "noop", <<>>)
            /\ UNCHANGED <<transportFailed, defaulted>>
    /\ UNCHANGED <<guiVars, cliMode, archiveVars>>

\* default_interface that sends "end" after the default command
default_interface_then_end(res1, res2) ==
    /\ dialog = <<>>
    /\ IF currentItem # 0 /\ connection = "open"
       THEN LET name == interface_list[currentItem].text
                mode1 == ModeAfter(cliMode, CmdConfigure, res1)
            IN  IF ~res1.ok
                THEN /\ cliMode' = mode1
                     /\ transportFailed' = TRUE
                     /\ UNCHANGED defaulted
                     /\ lastOp' = [Op("default", <<name>>, "transport",
                                      <<SendCommand(CmdConfigure)>>)
                                      EXCEPT !.raised = 1]
                ELSE /\ cliMode' = IF res2.ok THEN "exec"
                                   ELSE ModeAfter(mode1, CmdDefault(name), res2)
                     /\ transportFailed' = (transportFailed \/ ~res2.ok)
                     /\ defaulted' = (defaulted \/ res2.ok)
                     /\ lastOp' = [Op("default", <<name>>,
                                      IF res2.ok THEN "ok" ELSE "transport",
                                      <<SendCommand(CmdConfigure),
                                        SendCommand(CmdDefault(name))>>
                                      \o IF res2.ok THEN <<SendCommand(CmdEnd)>>
                                         ELSE <<>>)
                                      EXCEPT !.raised = IF res2.ok THEN 0 ELSE 2]
       ELSE /\ lastOp' = Op("default", <<>>, "sessionNotReady", <<>>)
            /\ UNCHANGED <<cliMode, transportFailed, defaulted>>
    /\ UNCHANGED <<guiVars, archiveVars>>

\* default_interface: the "Default" entry of the context menu
default_interface(res1, res2) ==
    /\ dialog = <<>>
    /\ IF currentItem # 0 /\ connection = "open"
       THEN LET name == interface_list[currentItem].text
                mode1 == ModeAfter(cliMode, CmdConfigure, res1)
            IN  IF ~res1.ok
                THEN /\ cliMode' = mode1
                     /\ transportFailed' = TRUE
                     /\ UNCHANGED defaulted
                     /\ lastOp' = [Op("default", <<name>>, "transport",
                                      <<SendCommand(CmdConfigure)>>)
                                      EXCEPT !.raised = 1]
                ELSE /\ cliMode' = ModeAfter(mode1, CmdDefault(name), res2)
                     /\ transportFailed' = (transportFailed \/ ~res2.ok)
                     /\ defaulted' = (defaulted \/ res2.ok)
                     /\ lastOp' = [Op("default", <<name>>,
                                      IF res2.ok THEN "ok" ELSE "transport",
                                      <<SendCommand(CmdConfigure),
                                        SendCommand(CmdDefault(name))>>)
                                      EXCEPT !.raised = IF res2.ok THEN 0 ELSE 2]
       ELSE /\ lastOp' = Op("default", <<>>, "sessionNotReady", <<>>)
            /\ UNCHANGED <<cliMode, transportFailed, defaulted>>
    /\ UNCHANGED <<guiVars, archiveVars>>

\* open_interface_config: a double click on item i opens the modal dialog
open_interface_config(i) ==
    /\ dialog = <<>>
    /\ i \in 1..Len(interface_list)
    /\ connection = "open"
    /\ dialog' = <<interface_list[i].text>>
    /\ lastOp' = Op("openDialog", <<interface_list[i].text>>, "ok", <<>>)
    /\ UNCHANGED <<connection, interface_list, vlan_list, currentItem, cliMode,
                   transportFailed, defaulted, archiveVars>>

\* dialog.exec_() returns when the dialog is closed
close_dialog ==
    /\ dialog # <<>>
    /\ dialog' = <<>>
    /\ lastOp' = Op("closeDialog", <<>>, "ok", <<>>)
    /\ UNCHANGED <<connection, interface_list, vlan_list, currentItem, cliMode,
                   transportFailed, defaulted, archiveVars>>

----------------------------------------------------------------------------
(* InterfaceConfigDialog *)

\* apply_configuration: the "Uygula" button, text is config_area.toPlainText()
apply_configuration(text, res) ==
    /\ dialog # <<>>
    /\ LET commands == split(strip(text), "\n")
           batch == <<ScopeInterface(dialog[1])>> \o commands
       IN  IF commands # <<>>
           THEN /\ cliMode' = ModeAfterBatch(cliMode, res)
                /\ transportFailed' = (transportFailed \/ ~res.ok)
                /\ UNCHANGED defaulted
                /\ lastOp' = Op("apply", <<text>>,
                                IF res.ok THEN "ok" ELSE "transport",
                                <<SendConfigSet(batch)>>)
           ELSE /\ lastOp' = Op("apply", <<text>>, "emptyBatch", <<>>)
                /\ UNCHANGED <<cliMode, transportFailed, defaulted>>
    /\ UNCHANGED <<guiVars, archiveVars>>

----------------------------------------------------------------------------
(* ConfigManager: backup and restore.  The connection argument is the       *)
(* caller's self.connection, None or a live handle.                         *)

\* The characters of a number below 10, at fixed width
DigitOf(n) == <<"0", "1", "2", "3", "4", "5", "6", "7", "8", "9">>[n + 1]

\* strftime("%Y%m%d_%H%M"): the clock cut to a coarser unit than the second
timestamp_minute(t) == <<"0", "_", DigitOf(t \div (2 * TicksPerSecond))>>

\* strftime("%Y%m%d_%H%M%S"): the date, "_", and the time cut to whole
\* seconds, each at fixed width (one character here, on one day)
timestamp(t) == <<"0", "_", DigitOf(t \div TicksPerSecond)>>

\* f"backup_{ip}_{timestamp}.txt", ip and ts sequences of characters
filename(ip, ts) == <<"backup_">> \o ip \o <<"_">> \o ts \o <<".txt">>

RECURSIVE filtered_config_strip_first(_)
\* filtered_config with the comment test made on the stripped line
filtered_config_strip_first(lines) ==
    IF lines = <<>>
    THEN <<>>
    ELSE IF startswith(strip(Head(lines)), "!")
         THEN filtered_config_strip_first(Tail(lines))
         ELSE <<strip(Head(lines))>> \o filtered_config_strip_first(Tail(lines))

RECURSIVE filtered_config(_)
\* [line.strip() for line in config_lines if not line.startswith("!")]
filtered_config(lines) ==
    IF lines = <<>>
    THEN <<>>
    ELSE IF startswith(Head(lines), "!")
         THEN filtered_config(Tail(lines))
         ELSE <<strip(Head(lines))>> \o filtered_config(Tail(lines))

\* backup_config(connection, ip)
backup_config(ip, res) ==
    /\ dialog = <<>>
    /\ connection # "unset"
    /\ IF connection = "open" /\ res.ok
       THEN LET name == filename(ip, timestamp(clock))
            IN  /\ files' = [n \in DOMAIN files \cup {name} |->
                                IF n = name THEN running_config ELSE files[n]]
                /\ firstWrite' = [n \in DOMAIN files \cup {name} |->
                                     IF n \in DOMAIN files
                                     THEN firstWrite[n]
                                     ELSE [ip |-> ip, tick |-> clock]]
                /\ lastOp' = Op("backup",
                                <<ip, name,
                                  IF name \notin DOMAIN files THEN "created"
                                  ELSE IF files[name] = running_config THEN "same"
                                  ELSE "replaced",
                                  clock>>,
                                "ok", <<SendCommand(CmdRunning)>>)
                /\ UNCHANGED <<transportFailed, defaulted>>
       ELSE /\ lastOp' = Op("backup", <<ip>>, "failed",
                            IF connection = "open"
                            THEN <<SendCommand(CmdRunning)>> ELSE <<>>)
            /\ transportFailed' = (transportFailed \/ connection = "open")
            /\ UNCHANGED defaulted
            /\ UNCHANGED <<files, firstWrite>>
    /\ UNCHANGED <<guiVars, cliMode, clock, running_config>>

\* restore_config(connection, filename)
restore_config(name, res) ==
    /\ dialog = <<>>
    /\ connection # "unset"
    /\ IF name \notin DOMAIN files
       THEN /\ lastOp' = Op("restore", <<name>>, "notFound", <<>>)
            /\ UNCHANGED <<cliMode, transportFailed, defaulted>>
       ELSE IF connection = "none"
            THEN /\ lastOp' = Op("restore", <<name>>, "failed", <<>>)
                 /\ UNCHANGED <<cliMode, transportFailed, defaulted>>
            ELSE /\ cliMode' = ModeAfterBatch(cliMode, res)
                 /\ transportFailed' = (transportFailed \/ ~res.ok)
                 /\ UNCHANGED defaulted
                 /\ lastOp' = Op("restore", <<name>>,
                                 IF res.ok THEN "ok" ELSE "failed",
                                 <<SendConfigSet(filtered_config(readlines(files[name])))>>)
    /\ UNCHANGED <<guiVars, archiveVars>>

\* The wall clock advances
tick ==
    /\ clock < MaxTick
    /\ clock' = clock + 1
    /\ UNCHANGED <<guiVars, cliMode, transportFailed, defaulted, files, firstWrite,
                   running_config, lastOp>>

\* The running configuration of the device changes
reconfigure(config) ==
    /\ running_config # config
    /\ running_config' = config
    /\ UNCHANGED <<guiVars, cliMode, transportFailed, defaulted, files, firstWrite, clock, lastOp>>

----------------------------------------------------------------------------
(* Inputs *)

RECURSIVE Words(_)
\* The words of a line, one blank between two
Words(ws) ==
    IF ws = <<>> THEN <<>>
    ELSE IF Len(ws) = 1 THEN <<ws[1]>>
    ELSE <<ws[1], " ">> \o Words(Tail(ws))

RECURSIVE JoinLines(_)
\* The lines of a text, one "\n" between two
JoinLines(ls) ==
    IF ls = <<>> THEN <<>>
    ELSE IF Len(ls) = 1 THEN ls[1]
    ELSE ls[1] \o <<"\n">> \o JoinLines(Tail(ls))

BriefHeader ==
    Words(<<"Interface", "IP-Address", "OK?", "Method", "Status", "Protocol">>)

LineUp == Words(<<"Gi0/1", "unassigned", "YES", "NVRAM", "up", "up">>)
LineAdminDown ==
    Words(<<"Gi0/2", "unassigned", "YES", "NVRAM", "administratively", "down", "down">>)
LineDown == Words(<<"Gi0/3", "unassigned", "YES", "NVRAM", "down", "down">>)
LineOther == Words(<<"Gi0/4", "unassigned", "YES", "NVRAM", "deleted", "down">>)
LineFour == Words(<<"Gi0/5", "unassigned", "YES", "NVRAM">>)
LineOne == <<"Gi0/6">>
LineBlank == <<>>

BriefLines ==
    {LineUp, LineAdminDown, LineDown, LineOther, LineFour, LineOne, LineBlank}

\* Outputs of "show ip interface brief": a header and up to n lines
BriefTexts(n) ==
    {JoinLines(<<BriefHeader>> \o ls) :
        ls \in UNION {[1..k -> BriefLines] : k \in 0..n}}

VlanHeader == Words(<<"VLAN", "Name", "Status", "Ports">>)

VlanDefault == <<"1", " ", "default", " ", "active", " ", "Gi0/3">>
VlanServers == <<"1", "0", " ", "Servers", " ", "active", " ", "Gi0/4">>
VlanPorts == <<" ", " ", "Gi0/5,", " ", "Gi0/6">>
VlanRule == <<"----", " ", "----">>
VlanBare == <<"2">>

VlanLines == {VlanDefault, VlanServers, VlanPorts, VlanRule, VlanBare, LineBlank}

\* Outputs of "show vlan brief": a header and up to n lines
VlanTexts(n) ==
    {JoinLines(<<VlanHeader>> \o ls) :
        ls \in UNION {[1..k -> VlanLines] : k \in 0..n}}

SampleBrief == JoinLines(<<BriefHeader, LineUp, LineAdminDown, LineBlank>>)
SampleVlan == JoinLines(<<VlanHeader, VlanDefault, VlanServers, LineBlank>>)

ReadOk == [ok |-> TRUE, applied |-> TRUE]

\* A read-only command returns or raises
ReadResults == {ReadOk, [ok |-> FALSE, applied |-> FALSE]}

AdHocCommands == {CmdShowVersion, CmdConfigure, CmdEnd}

\* Texts of the dialog's config_area
DialogTexts ==
    {<<>>, <<" ">>, <<"shutdown">>,
     <<"shutdown", "\n", "speed", " ", "auto", "\n">>}

\* Texts of ip_input; the second ends like a time stamp
Addresses == {<<"s">>, <<"s", "_", "0", "_", "0">>}

Chars == {"!", " ", "\n", "a"}

\* Running configurations of up to n characters
ConfigTexts(n) == UNION {[1..k -> Chars] : k \in 0..n}

ArchiveConfigs == {<<"a", "\n">>, <<"!", "\n", " ", "a", "\n">>}

FileNames(ips) == {filename(ip, timestamp(t)) : ip \in ips, t \in 0..MaxTick}

----------------------------------------------------------------------------
(* Specifications *)

\* The window and its dialog
Next ==
    \/ \E connOk \in BOOLEAN, ifRes \in ReadResults, vlRes \in ReadResults :
           connect_to_switch(connOk, ifRes, SampleBrief, vlRes, SampleVlan)
    \/ \E c \in AdHocCommands, res \in SendResults : execute_command(c, res)
    \/ \E i \in 1..Len(interface_list), res \in ReadResults :
           show_interface_details(i, res)
    \/ \E i \in 1..Len(vlan_list), res \in ReadResults : show_vlan_ports(i, res)
    \/ \E res1 \in SendResults, res2 \in SendResults : default_interface(res1, res2)
    \/ \E i \in 1..Len(interface_list) : open_interface_config(i)
    \/ close_dialog
    \/ \E text \in DialogTexts, res \in SendResults : apply_configuration(text, res)

Spec == Init /\ [][Next]_vars

\* The listing of drawn device outputs
NextParse ==
    \/ \E connOk \in BOOLEAN, ifOut \in BriefTexts(MaxLines) :
           connect_to_switch(connOk, ReadOk, ifOut, ReadOk, SampleVlan)
    \/ \E connOk \in BOOLEAN, vlOut \in VlanTexts(MaxLines) :
           connect_to_switch(connOk, ReadOk, SampleBrief, ReadOk, vlOut)

SpecParse == Init /\ [][NextParse]_vars

\* Backup and restore against the clock
NextArchive ==
    \/ \E connOk \in BOOLEAN :
           connect_to_switch(connOk, ReadOk, SampleBrief, ReadOk, SampleVlan)
    \/ \E ip \in Addresses, res \in ReadResults : backup_config(ip, res)
    \/ \E name \in FileNames(Addresses), res \in SendResults :
           restore_config(name, res)
    \/ tick
    \/ \E config \in ArchiveConfigs : reconfigure(config)

SpecArchive == Init /\ [][NextArchive]_vars

\* Backup and restore of a drawn running configuration
InitRoundTrip == Constructed /\ running_config \in ConfigTexts(MaxLen)

NextRoundTrip ==
    \/ \E connOk \in BOOLEAN :
           connect_to_switch(connOk, ReadOk, SampleBrief, ReadOk, SampleVlan)
    \/ \E res \in ReadResults : backup_config(<<"s">>, res)
    \/ \E name \in FileNames({<<"s">>}), res \in SendResults :
           restore_config(name, res)

SpecRoundTrip == InitRoundTrip /\ [][NextRoundTrip]_vars

----------------------------------------------------------------------------
(* Claims *)

Sends == {"execute", "describe", "vlanPorts", "default", "apply", "restore"}

\* C1: apply_configuration with no command text ends with emptyBatch and
\* makes no transport call, for every interface and session state.
C1_EmptyBatchRejected ==
    (lastOp.op = "apply" /\ strip(lastOp.arg[1]) = <<>>)
        => (lastOp.outcome = "emptyBatch" /\ lastOp.sent = <<>>)

\* C2: execute_command on a session that is not ready (connect never called,
\* or the last connect failed) ends with sessionNotReady, without a transport
\* call and without any other failure.
C2_NotReadyExecute ==
    (lastOp.op = "execute" /\ lastOp.preConn # "open")
        => (lastOp.outcome = "sessionNotReady" /\ lastOp.sent = <<>>)

\* C3: once a send on the connection has raised, every later execute,
\* describe or configuration push makes no transport call until connect
\* succeeds again.
C3_FailFastAfterTransportError ==
    (lastOp.op \in Sends /\ lastOp.preFailed) => lastOp.sent = <<>>

\* C4: when a configuration push raises, the handler still sends a command
\* that leaves configuration mode before it reports the error, and the remote
\* CLI is not left in configuration mode.
C4_ExitAttemptedOnFailure ==
    (lastOp.op \in {"apply", "restore"}
     /\ lastOp.sent # <<>>
     /\ lastOp.outcome \in {"transport", "failed"})
        => (/\ \E i \in 2..Len(lastOp.sent) : lastOp.sent[i] = SendCommand(CmdEnd)
            /\ cliMode # "config")

\* The lines after the header of the interface output of the last connect
BriefDataLines == Tail(split(lastOp.arg[1], "\n"))

\* The lines after the header of the VLAN output of the last connect
VlanDataLines == Tail(split(lastOp.arg[2], "\n"))

Listed == lastOp.op = "connect" /\ lastOp.outcome = "ok"

HasFiveTokens(line) == Len(columnsOf(line)) >= 5

\* C5: the interface list holds one record for each line after the header
\* that has at least 5 tokens, in order; shorter lines are skipped without an
\* error and without hiding the lines after them.
C5_BriefListsQualifyingLines ==
    Listed =>
        LET q == SelectSeq(BriefDataLines, HasFiveTokens)
        IN  /\ lastOp.loadIf = "ok"
            /\ Len(interface_list) = Len(q)
            /\ \A k \in 1..Len(q) : interface_list[k].text = columnsOf(q[k])[1]

\* The indicator the status column of a line stands for
StatusIcon(line) ==
    LET c == columnsOf(line)
    IN  IF c[5] = <<"up">> THEN "green_icon.png"
        ELSE IF c[5] = <<"down">> THEN "red_icon.png"
        ELSE IF c[5] = <<"administratively">> /\ Len(c) >= 6 /\ c[6] = <<"down">>
             THEN "black_icon.png"
        ELSE "none"

\* C6: each listed interface carries the indicator of its status column: up,
\* down, administratively down (two tokens), and none for anything else.
C6_StatusMapping ==
    (Listed /\ lastOp.loadIf = "ok") =>
        LET q == SelectSeq(BriefDataLines, HasFiveTokens)
        IN  \A k \in 1..Len(interface_list) :
                k <= Len(q) => interface_list[k].icon = StatusIcon(q[k])

IsVlanLine(line) ==
    LET c == columnsOf(line) IN Len(c) >= 2 /\ isdigit(c[1])

\* C7: the VLAN list holds one record (id, name) for each line after the
\* header whose first token is a non-negative integer, in order; every other
\* line, a line without a second token included, is skipped without an error
\* and without hiding the lines after it.
C7_VlanListsQualifyingLines ==
    Listed =>
        LET q == SelectSeq(VlanDataLines, IsVlanLine)
        IN  /\ lastOp.loadVlan = "ok"
            /\ Len(vlan_list) = Len(q)
            /\ \A k \in 1..Len(q) :
                   /\ vlan_list[k].data = columnsOf(q[k])[1]
                   /\ vlan_list[k].text = <<columnsOf(q[k])[1], columnsOf(q[k])[2]>>

\* A restore that has sent its batch
Restored == lastOp.op = "restore" /\ lastOp.sent # <<>>

\* The positions where the lines of a text end
LineEnds(t) == {i \in 1..Len(t) : t[i] = "\n" \/ i = Len(t)}

\* The position where the line ending at e starts
LineStart(t, e) ==
    LET prev == {j \in LineEnds(t) : j < e}
    IN  IF prev = {} THEN 1
        ELSE 1 + CHOOSE j \in prev : \A x \in prev : x <= j

\* The line ending at e, without its terminator
LineBody(t, e) == SubSeq(t, LineStart(t, e), IF t[e] = "\n" THEN e - 1 ELSE e)

\* The ends of the lines that do not begin with "!"
KeptEnds(t) == {e \in LineEnds(t) : t[LineStart(t, e)] # "!"}

Rank(S, e) == Cardinality({x \in S : x <= e})

\* s is body without its leading and trailing whitespace
IsStripOf(s, body) ==
    \E i \in 1..(Len(body) + 1), j \in 0..Len(body) :
        /\ i <= j + 1
        /\ s = SubSeq(body, i, j)
        /\ \A k \in 1..(i - 1) : body[k] \in Whitespace
        /\ \A k \in (j + 1)..Len(body) : body[k] \in Whitespace
        /\ s # <<>> => (s[1] \notin Whitespace /\ s[Len(s)] \notin Whitespace)

ResetSends ==
    (lastOp.op = "default" /\ lastOp.preConn = "open" /\ currentItem # 0) =>
        LET name == interface_list[currentItem].text
            sent == lastOp.sent
        IN  /\ lastOp.outcome # "sessionNotReady"
            /\ Len(sent) \in {1, 2}
            /\ sent[1] = SendCommand(CmdConfigure)
            /\ Len(sent) = 2 <=> lastOp.raised # 1
            /\ Len(sent) = 2 => sent[2] = SendCommand(CmdDefault(name))
            /\ \A i \in 1..Len(sent) : sent[i] # SendCommand(CmdEnd)
            /\ lastOp.outcome = "ok" => (cliMode = "config" /\ defaulted)

\* C10 as stated: default_interface sends "configure terminal", then
\* "default interface {name}" only if the first did not fail, and nothing that
\* leaves configuration mode; every later command of the session is issued
\* with the remote CLI in configuration mode.
C10_AlwaysConfigAfterReset ==
    /\ ResetSends
    /\ (lastOp.op \in {"execute", "describe", "vlanPorts"}
        /\ lastOp.sent # <<>>
        /\ lastOp.preDefaulted) => lastOp.preMode = "config"

\* C10 amended: default_interface sends "configure terminal", then "default
\* interface {name}" only if the first did not fail, and nothing that leaves
\* configuration mode, so the remote CLI is in configuration mode when it
\* completes; it stays there until a new connect, a configuration push, or an
\* ad hoc command that leaves configuration mode.
C10_ConfigUntilLeft ==
    [][/\ ResetSends'
       /\ (defaulted /\ cliMode = "config" /\ cliMode' # "config") =>
              \/ lastOp'.op \in {"connect", "apply", "restore"}
              \/ lastOp'.op = "execute" /\ lastOp'.arg[1] = CmdEnd]_vars

\* An ad hoc command was issued in configuration mode after a reset
C10_Witness ==
    /\ lastOp.op = "execute"
    /\ lastOp.outcome = "ok"
    /\ lastOp.preDefaulted
    /\ lastOp.preMode = "config"
    /\ lastOp.arg[1] = CmdShowVersion

====
